---- MODULE Spec2Model ----
(***************************************************************************)
(* A model of mmq (src/mmq/mmq.py): the Majorize-Minimize solvers mmmg and *)
(* mmcg, the Criterion / QuadCriterion objects and the Potential family.   *)
(*                                                                         *)
(* Numbers.  The code computes in IEEE floating point through numpy.  The  *)
(* model computes in exact rational arithmetic, extended with the three    *)
(* special values a numpy division produces instead of raising:            *)
(*     <<n, d>>  with d > 0 and gcd(n, d) = 1   the rational n/d           *)
(*     <<1, 0>>, <<-1, 0>>                      +inf, -inf                 *)
(*     <<0, 0>>                                 nan                        *)
(* Rounding is not modelled.  A norm la.norm(v) = sqrt(v.v) is kept as its *)
(* square v.v, and every comparison of a norm with a threshold is made on  *)
(* the squares, which is the same comparison for non-negative numbers.     *)
(*                                                                         *)
(* Arrays.  A column vector is a sequence of numbers, a matrix a sequence  *)
(* of rows.  A linear operator V is the matrix that represents it.         *)
(***************************************************************************)
EXTENDS Integers, Sequences, FiniteSets, TLC

VARIABLES
    inp,    \* the arguments of the solver call: crit_list, init, tol, max_iter
    mg,     \* the frame of the running mmmg call (its locals, its position)
    cg,     \* the frame of the running mmcg call
    obj,    \* the Potential or Criterion object under a direct call
    call,   \* the method called on obj and its argument
    ret     \* what that call returned (or the error it raised)

vars == <<inp, mg, cg, obj, call, ret>>

(***************************************************************************)
(* Bounds of the model.                                                    *)
(***************************************************************************)
\* the largest max_iter a call is given
MaxIter == 3
\* sample points of a potential are the multiples k/2 with |k| <= MaxSample
MaxSample == 4
\* the longest array handed to a potential
MaxLen == 2

(***************************************************************************)
(* Extended rational arithmetic (numpy float64 +, -, *, /, <, ==).         *)
(***************************************************************************)
Abs(i) == IF i < 0 THEN -i ELSE i

Sgn(i) == IF i < 0 THEN -1 ELSE IF i = 0 THEN 0 ELSE 1

RECURSIVE GCD(_, _)
GCD(a, b) == IF b = 0 THEN a ELSE GCD(b, a % b)

\* the number n/d in lowest terms; n/0 is nan, +inf or -inf as numpy divides
Q(n, d) ==
    IF d = 0 THEN <<Sgn(n), 0>>
    ELSE LET g == GCD(Abs(n), Abs(d))
         IN  <<(Sgn(d) * n) \div g, Abs(d) \div g>>

Zero == <<0, 1>>
One == <<1, 1>>
NaN == <<0, 0>>
PInf == <<1, 0>>

I(n) == <<n, 1>>

IsNaN(a) == a = NaN
IsInf(a) == a[2] = 0 /\ a[1] # 0
IsFin(a) == a[2] # 0

RSgn(a) == Sgn(a[1])

RNeg(a) == <<-a[1], a[2]>>

RMul(a, b) ==
    IF IsNaN(a) \/ IsNaN(b) THEN NaN
    ELSE IF IsInf(a) \/ IsInf(b) THEN <<RSgn(a) * RSgn(b), 0>>
    ELSE LET g == GCD(Abs(a[1]), b[2])
             h == GCD(Abs(b[1]), a[2])
         IN  Q((a[1] \div g) * (b[1] \div h), (a[2] \div h) * (b[2] \div g))

RAdd(a, b) ==
    IF IsNaN(a) \/ IsNaN(b) THEN NaN
    ELSE IF IsInf(a) /\ IsInf(b) THEN (IF a = b THEN a ELSE NaN)
    ELSE IF IsInf(a) THEN a
    ELSE IF IsInf(b) THEN b
    ELSE LET g == GCD(a[2], b[2])
         IN  Q(a[1] * (b[2] \div g) + b[1] * (a[2] \div g), (a[2] \div g) * b[2])

RSub(a, b) == RAdd(a, RNeg(b))

\* a / b; a finite a over 0 gives nan (0/0) or a signed infinity, never an error
RDiv(a, b) ==
    IF IsNaN(a) \/ IsNaN(b) THEN NaN
    ELSE IF IsInf(b) THEN (IF IsInf(a) THEN NaN ELSE Zero)
    ELSE IF IsInf(a) THEN <<RSgn(a) * (IF RSgn(b) < 0 THEN -1 ELSE 1), 0>>
    ELSE IF b[1] = 0 THEN <<RSgn(a), 0>>
    ELSE RMul(a, <<Sgn(b[1]) * b[2], Abs(b[1])>>)

\* a < b; every comparison with nan is False
RLt(a, b) ==
    /\ ~IsNaN(a)
    /\ ~IsNaN(b)
    /\ IF IsInf(a) \/ IsInf(b)
       THEN (IF IsInf(a) THEN 2 * RSgn(a) ELSE 0) < (IF IsInf(b) THEN 2 * RSgn(b) ELSE 0)
       ELSE LET g == GCD(a[2], b[2])
            IN  a[1] * (b[2] \div g) < b[1] * (a[2] \div g)

\* a == b as floats compare (nan is equal to nothing)
REq(a, b) == ~IsNaN(a) /\ ~IsNaN(b) /\ a = b

RLe(a, b) == RLt(a, b) \/ REq(a, b)

RAbs(a) == <<Abs(a[1]), a[2]>>

(***************************************************************************)
(* Vectors and matrices (numpy @, +, *, .T, np.c_).                        *)
(***************************************************************************)
\* the array with every element computed (an array is stored, not recomputed)
Seal(v) == SubSeq(v, 1, Len(v))

RECURSIVE SumSeq(_)
SumSeq(s) == IF s = <<>> THEN Zero ELSE RAdd(Head(s), SumSeq(Tail(s)))

Dot(u, v) == SumSeq(Seal([i \in 1..Len(u) |-> RMul(u[i], v[i])]))

VAdd(u, v) == Seal([i \in 1..Len(u) |-> RAdd(u[i], v[i])])

VSub(u, v) == Seal([i \in 1..Len(u) |-> RSub(u[i], v[i])])

VScale(a, v) == Seal([i \in 1..Len(v) |-> RMul(a, v[i])])

VNeg(v) == Seal([i \in 1..Len(v) |-> RNeg(v[i])])

VZero(n) == Seal([i \in 1..n |-> Zero])

\* M @ v for a matrix M (a sequence of rows) and a column v
MatVec(M, v) == Seal([i \in 1..Len(M) |-> Dot(M[i], v)])

\* M.T for a matrix with ncols columns
Transpose(M, ncols) == Seal([j \in 1..ncols |-> Seal([i \in 1..Len(M) |-> M[i][j]])])

\* the j-th column of a matrix
Col(M, j) == Seal([i \in 1..Len(M) |-> M[i][j]])

\* np.c_[a, b]: the two-column matrix of the columns a and b
CBind(a, b) == Seal([i \in 1..Len(a) |-> <<a[i], b[i]>>])

\* la.norm(v) ** 2
NormSq(v) == Dot(v, v)

(***************************************************************************)
(* Values of a potential.  Hyperbolic.gradient takes a square root, so a   *)
(* value returned by a potential is kept as a pair <<c, r>> that stands    *)
(* for c * sqrt(r), with c an extended rational and r a positive rational; *)
(* r = One for every value the other variants return.                      *)
(***************************************************************************)
Rat(c) == <<c, One>>

SIsRat(s) == s[2] = One

\* the sign of c * sqrt(r)
SSgn(s) == RSgn(s[1])

\* (c * sqrt(r)) ** 2
SSq(s) == RMul(RMul(s[1], s[1]), s[2])

\* s / q for a rational q
SDiv(s, q) == <<RDiv(s[1], q), s[2]>>

\* s = t as numbers
SEq(s, t) ==
    /\ ~IsNaN(s[1])
    /\ ~IsNaN(t[1])
    /\ SSgn(s) = SSgn(t)
    /\ SSq(s) = SSq(t)

\* s <= t as numbers
SLe(s, t) ==
    /\ ~IsNaN(s[1])
    /\ ~IsNaN(t[1])
    /\ \/ SSgn(s) < SSgn(t)
       \/ SSgn(s) = 0 /\ SSgn(t) = 0
       \/ SSgn(s) = 1 /\ SSgn(t) = 1 /\ RLe(SSq(s), SSq(t))
       \/ SSgn(s) = -1 /\ SSgn(t) = -1 /\ RLe(SSq(t), SSq(s))

(***************************************************************************)
(* The Potential family.  An object is a record of its attributes; cls is  *)
(* its class.  SquareTruncApprox is left out: its gradient is u/d^2 times  *)
(* exp(-u^2/(2 d^2)), which no rational or square root represents.         *)
(***************************************************************************)
\* Potential.__init__ as each subclass calls it, then the subclass's own assignments
Square == [cls |-> "Square", inf |-> One, convex |-> TRUE, coercive |-> TRUE]

VminProj(vmin) ==
    [cls |-> "VminProj", inf |-> One, vmin |-> vmin, convex |-> TRUE, coercive |-> TRUE]

VmaxProj(vmax) ==
    [cls |-> "VmaxProj", inf |-> One, vmax |-> vmax, convex |-> TRUE, coercive |-> TRUE]

\* super().__init__(inf=1 / delta**2) and then self.inf = 1 / (2 * delta)
Hyperbolic(delta) ==
    LET base == [cls |-> "Hyperbolic", inf |-> RDiv(One, RMul(delta, delta))]
    IN  [cls |-> base.cls, inf |-> RDiv(One, RMul(I(2), delta)),
         delta |-> delta, convex |-> TRUE, coercive |-> TRUE]

Huber(delta) ==
    [cls |-> "Huber", inf |-> One, delta |-> delta, convex |-> TRUE, coercive |-> TRUE]

GemanMcClure(delta) ==
    [cls |-> "GemanMcClure", inf |-> RDiv(One, RMul(delta, delta)),
     delta |-> delta, convex |-> FALSE, coercive |-> FALSE]

HerbertLeahy(delta) ==
    [cls |-> "HerbertLeahy", inf |-> PInf, delta |-> delta,
     convex |-> FALSE, coercive |-> TRUE]

\* point: Square.gradient
SquareGradient(u) == Rat(u)

\* np.where(point > self.vmin, 0, point - self.vmin)
VminProjGradient(pot, u) == IF RLt(pot.vmin, u) THEN Rat(Zero) ELSE Rat(RSub(u, pot.vmin))

\* np.where(point < self.vmax, 0, point - self.vmax)
VmaxProjGradient(pot, u) == IF RLt(u, pot.vmax) THEN Rat(Zero) ELSE Rat(RSub(u, pot.vmax))

\* (point / delta**2) * np.sqrt(1 + point**2 / delta**2)
HyperbolicGradient(pot, u) ==
    LET d2 == RMul(pot.delta, pot.delta)
    IN  <<RDiv(u, d2), RAdd(One, RDiv(RMul(u, u), d2))>>

\* mutant of HuberTail: np.sign is forgotten
HuberTailUnsigned(pot, u) == RMul(I(2), pot.delta)

\* what Huber.gradient returns where abs(point) > delta
HuberTail(pot, u) == RMul(RMul(I(2), pot.delta), I(RSgn(u)))

\* np.where(np.abs(point) <= delta, 2 * point, 2 * delta * np.sign(point))
HuberGradient(pot, u) ==
    IF RLe(RAbs(u), pot.delta) THEN Rat(RMul(I(2), u)) ELSE Rat(HuberTail(pot, u))

\* 4 * point * delta**2 / (2 * delta**2 + point**2) ** 2
GemanMcClureGradient(pot, u) ==
    LET d2 == RMul(pot.delta, pot.delta)
        den == RAdd(RMul(I(2), d2), RMul(u, u))
    IN  Rat(RDiv(RMul(RMul(I(4), u), d2), RMul(den, den)))

\* 2 * point / (delta**2 + point**2)
HerbertLeahyGradient(pot, u) ==
    Rat(RDiv(RMul(I(2), u), RAdd(RMul(pot.delta, pot.delta), RMul(u, u))))

\* pot.gradient at one element
Gradient1(pot, u) ==
    CASE pot.cls = "Square" -> SquareGradient(u)
      [] pot.cls = "VminProj" -> VminProjGradient(pot, u)
      [] pot.cls = "VmaxProj" -> VmaxProjGradient(pot, u)
      [] pot.cls = "Hyperbolic" -> HyperbolicGradient(pot, u)
      [] pot.cls = "Huber" -> HuberGradient(pot, u)
      [] pot.cls = "GemanMcClure" -> GemanMcClureGradient(pot, u)
      [] pot.cls = "HerbertLeahy" -> HerbertLeahyGradient(pot, u)

\* pot.gradient(point): every gradient of the family is elementwise
PotGradient(pot, point) == Seal([i \in 1..Len(point) |-> Gradient1(pot, point[i])])

\* mutant of NonZeroMask: no element is masked
NonZeroMaskAll(point) == [i \in 1..Len(point) |-> TRUE]

\* idx = point != 0
NonZeroMask(point) == Seal([i \in 1..Len(point) |-> ~REq(point[i], Zero)])

\* point[idx]: the elements at the True positions of the mask, in order
RECURSIVE Compress(_, _)
Compress(point, idx) ==
    IF point = <<>> THEN <<>>
    ELSE IF Head(idx) THEN <<Head(point)>> \o Compress(Tail(point), Tail(idx))
    ELSE Compress(Tail(point), Tail(idx))

\* aux[idx] = vals: the True positions of the mask take the values in order
RECURSIVE Scatter(_, _, _)
Scatter(aux, idx, vals) ==
    IF aux = <<>> THEN <<>>
    ELSE IF Head(idx) THEN <<Head(vals)>> \o Scatter(Tail(aux), Tail(idx), Tail(vals))
    ELSE <<Head(aux)>> \o Scatter(Tail(aux), Tail(idx), vals)

\* the divisors of Potential.gr_coeffs: point[idx]
GrDivisors(point) == Compress(point, NonZeroMask(point))

\* Potential.gr_coeffs(point)
PotGrCoeffs(pot, point) ==
    LET aux == Seal([i \in 1..Len(point) |-> Rat(RMul(pot.inf, One))])
        idx == NonZeroMask(point)
        sel == Compress(point, idx)
        grad == PotGradient(pot, sel)
        quot == Seal([j \in 1..Len(sel) |-> SDiv(grad[j], sel[j])])
    IN  Scatter(aux, idx, quot)

(***************************************************************************)
(* Direct calls on a Potential: the object is built, then its methods are  *)
(* called on sampled arrays, one call at a time.  A potential is          *)
(* stateless: a call leaves it as it was.                                  *)
(***************************************************************************)
\* the sampled points: the multiples of 1/2 from -MaxSample/2 to MaxSample/2
Samples == {Q(k, 2) : k \in (0 - MaxSample)..MaxSample}

\* the sampled arrays: every array of at most MaxLen sampled points
SampleArrays == UNION {[1..n -> Samples] : n \in 0..MaxLen}

\* the sampled shape parameters delta > 0
Deltas == {Q(1, 2), I(1), Q(3, 2)}

\* the sampled thresholds vmin, vmax
Thresholds == {I(0 - 1), I(0), I(1)}

\* every object the constructors of the family build from the sampled parameters
Potentials ==
    {Square}
    \cup {VminProj(v) : v \in Thresholds}
    \cup {VmaxProj(v) : v \in Thresholds}
    \cup {Hyperbolic(d) : d \in Deltas}
    \cup {Huber(d) : d \in Deltas}
    \cup {GemanMcClure(d) : d \in Deltas}
    \cup {HerbertLeahy(d) : d \in Deltas}

None == "none"

\* no call is under way
NoCall == [method |-> "none", point |-> <<>>]

PotInit ==
    /\ obj \in Potentials
    /\ call = NoCall
    /\ ret = <<>>
    /\ inp = None
    /\ mg = None
    /\ cg = None

\* obj.gradient(point)
CallPotGradient ==
    \E point \in SampleArrays :
        /\ call = NoCall
        /\ call' = [method |-> "gradient", point |-> point]
        /\ ret' = PotGradient(obj, point)
        /\ UNCHANGED <<obj, inp, mg, cg>>

\* obj.gr_coeffs(point)
CallPotGrCoeffs ==
    \E point \in SampleArrays :
        /\ call = NoCall
        /\ call' = [method |-> "gr_coeffs", point |-> point]
        /\ ret' = PotGrCoeffs(obj, point)
        /\ UNCHANGED <<obj, inp, mg, cg>>

\* the caller takes the result; the object is ready for the next call
PotReturn ==
    /\ call # NoCall
    /\ call' = NoCall
    /\ ret' = <<>>
    /\ UNCHANGED <<obj, inp, mg, cg>>

PotNext == CallPotGradient \/ CallPotGrCoeffs \/ PotReturn

SpecPot == PotInit /\ [][PotNext]_vars

Called(method) == call.method = method

(***************************************************************************)
(* Claims on the Potential family, checked under SpecPot.                  *)
(***************************************************************************)
\* C6 (as claimed): the constant inf that gr_coeffs returns at 0 is the limit of
\* gradient(u)/u at 0; so for Square, and for Huber(delta) on 0 < |u| <= delta,
\* where the gradient is linear, gr_coeffs(u) = inf at every nonzero u.
C6_InfIsLimitOfRatio ==
    (Called("gr_coeffs") /\ obj.cls \in {"Square", "Huber"}) =>
        \A i \in 1..Len(call.point) :
            (/\ ~REq(call.point[i], Zero)
             /\ obj.cls = "Huber" => RLe(RAbs(call.point[i]), obj.delta))
            => SEq(ret[i], Rat(obj.inf))

\* C7: gr_coeffs(u) is, element by element, inf where u = 0 and gradient(u)/u
\* where u # 0, no divisor is zero, and for Square every coefficient is 1.
C7_GrCoeffsElementwise ==
    Called("gr_coeffs") =>
        /\ Len(ret) = Len(call.point)
        /\ \A i \in 1..Len(call.point) :
            /\ REq(call.point[i], Zero) => ret[i] = Rat(obj.inf)
            /\ ~REq(call.point[i], Zero) =>
                   ret[i] = SDiv(Gradient1(obj, call.point[i]), call.point[i])
            /\ obj.cls = "Square" => ret[i] = Rat(One)
        /\ \A j \in 1..Len(GrDivisors(call.point)) :
               ~REq(GrDivisors(call.point)[j], Zero)

\* C7 witness: gr_coeffs was called on an array holding a zero and a nonzero element
C7_Witness ==
    /\ Called("gr_coeffs")
    /\ obj.cls = "Huber"
    /\ call.point = <<I(0), I(2)>>
    /\ ret = <<Rat(One), Rat(Q(1, 2))>>

\* C10: for a variant flagged convex and coercive, gradient is non-decreasing
\* over the sampled points: u <= v implies gradient(u) <= gradient(v).
C10_GradientMonotone ==
    (Called("gradient") /\ obj.convex /\ obj.coercive) =>
        \A i, j \in 1..Len(call.point) :
            RLe(call.point[i], call.point[j]) => SLe(ret[i], ret[j])

\* C10 witness: gradient was called on a pair u < v across Huber's threshold
C10_Witness ==
    /\ Called("gradient")
    /\ obj.cls = "Huber"
    /\ obj.delta = Q(3, 2)
    /\ call.point = <<I(1), I(2)>>
    /\ ret = <<Rat(I(2)), Rat(I(3))>>

(***************************************************************************)
(* Shapes.  What Criterion does with the shapes of the operator's output   *)
(* and of the mean: a shape is a sequence of axis lengths, << >> the shape  *)
(* of a scalar (the default mean=0).                                       *)
(***************************************************************************)
\* the longest axis of a sampled shape
MaxDim == 3

RECURSIVE Prod(_)
Prod(shape) == IF shape = <<>> THEN 1 ELSE Head(shape) * Prod(Tail(shape))

RECURSIVE SumInts(_)
SumInts(s) == IF s = <<>> THEN 0 ELSE Head(s) + SumInts(Tail(s))

Front(s) == SubSeq(s, 1, Len(s) - 1)

\* mutant of Broadcast: the shapes must be equal
BroadcastStrict(s, t) == [raised |-> s # t, shape |-> IF s = t THEN s ELSE <<>>]

\* the shape of a - b for arrays of shapes s and t, as numpy broadcasts them:
\* the axes are aligned from the last; two lengths agree when they are equal or
\* one of them is 1; otherwise the subtraction raises ValueError
RECURSIVE Broadcast(_, _)
Broadcast(s, t) ==
    IF s = <<>> THEN [raised |-> FALSE, shape |-> t]
    ELSE IF t = <<>> THEN [raised |-> FALSE, shape |-> s]
    ELSE LET a == s[Len(s)]
             b == t[Len(t)]
             rest == Broadcast(Front(s), Front(t))
         IN  IF rest.raised \/ (a # b /\ a # 1 /\ b # 1)
             THEN [raised |-> TRUE, shape |-> <<>>]
             ELSE [raised |-> FALSE, shape |-> Append(rest.shape, IF a = 1 THEN b ELSE a)]

\* np.cumsum([0] + [arr.size for arr in mean])
RECURSIVE CumSum(_, _)
CumSum(sizes, acc) ==
    IF sizes = <<>> THEN <<acc>> ELSE <<acc>> \o CumSum(Tail(sizes), acc + Head(sizes))

\* the shape of Criterion._list2vec(arr_list): np.vstack of the (-1, 1) reshapes;
\* np.vstack raises ValueError on an empty list
List2VecShape(shapes) ==
    IF shapes = <<>> THEN [raised |-> TRUE, shape |-> <<>>]
    ELSE [raised |-> FALSE,
          shape |-> <<SumInts([i \in 1..Len(shapes) |-> Prod(shapes[i])]), 1>>]

\* Criterion.__init__ on an array-valued mean of shape mean (<< >> for a scalar);
\* opshape is the shape of what the operator callable returns.  No shape is compared.
CriterionOfArray(opshape, mean) ==
    [_stacked |-> FALSE, opshape |-> opshape, mean |-> mean, _mean |-> mean]

\* Criterion.__init__ on a list-valued mean, meanlist the shapes of its arrays;
\* oplist is the list of shapes the operator callable returns.  No shape is compared.
CriterionOfList(oplist, meanlist) ==
    [_stacked |-> TRUE, oplist |-> oplist, meanlist |-> meanlist,
     _shape |-> meanlist,
     _idx |-> CumSum([i \in 1..Len(meanlist) |-> Prod(meanlist[i])], 0),
     _mean |-> List2VecShape(meanlist).shape]

\* the shape of Criterion._operator(point)
OperatorShape(crit) ==
    IF crit._stacked THEN List2VecShape(crit.oplist)
    ELSE [raised |-> FALSE, shape |-> crit.opshape]

\* self._operator(point) - self._mean, the first thing value, gradient and
\* gr_coeffs compute
Difference(crit) ==
    LET out == OperatorShape(crit)
    IN  IF out.raised THEN out ELSE Broadcast(out.shape, crit._mean)

\* the sampled shapes of an array: at most two axes of length 1..MaxDim
ArrayShapes == UNION {[1..n -> 1..MaxDim] : n \in 0..2}

\* the sampled shapes of an element of a list-valued mean
ElementShapes == {<<n>> : n \in 1..MaxDim} \cup {<<1, n>> : n \in 1..MaxDim}

\* the sampled Criterion objects, as to shapes
ShapeCriteria ==
    {CriterionOfArray(o, m) : o \in ArrayShapes, m \in ArrayShapes}
    \cup {CriterionOfList(o, m) :
              o \in UNION {[1..n -> ElementShapes] : n \in 0..2},
              m \in UNION {[1..n -> ElementShapes] : n \in 1..2}}

ShapeInit ==
    /\ obj \in ShapeCriteria
    /\ call = NoCall
    /\ ret = [raised |-> FALSE, shape |-> <<>>]
    /\ inp = None
    /\ mg = None
    /\ cg = None

\* obj.value(point), obj.gradient(point) or obj.gr_coeffs(point), up to the
\* difference V.x - mean that each computes first
CallOnShapes(method) ==
    /\ call = NoCall
    /\ call' = [method |-> method, point |-> <<>>]
    /\ ret' = Difference(obj)
    /\ UNCHANGED <<obj, inp, mg, cg>>

CallValue == CallOnShapes("value")

CallGradient == CallOnShapes("gradient")

CallGrCoeffs == CallOnShapes("gr_coeffs")

ShapeReturn ==
    /\ call # NoCall
    /\ call' = NoCall
    /\ ret' = [raised |-> FALSE, shape |-> <<>>]
    /\ UNCHANGED <<obj, inp, mg, cg>>

ShapeNext == CallValue \/ CallGradient \/ CallGrCoeffs \/ ShapeReturn

SpecShape == ShapeInit /\ [][ShapeNext]_vars

\* the operator's output and the mean differ in shape (for a list-valued mean:
\* in the length of the list or in the shape of an array)
ShapeMismatch ==
    IF obj._stacked THEN obj.oplist # obj.meanlist ELSE obj.opshape # obj.mean

\* the total size of a list of arrays
TotalSize(shapes) == SumInts([i \in 1..Len(shapes) |-> Prod(shapes[i])])

\* some axis, counted from the last, on which s and t differ and neither is 1
Incompatible(s, t) ==
    \E k \in 1..Len(s) :
        /\ k <= Len(t)
        /\ s[Len(s) - k + 1] # t[Len(t) - k + 1]
        /\ s[Len(s) - k + 1] # 1
        /\ t[Len(t) - k + 1] # 1

\* C5 (as claimed): a call of value, gradient or gr_coeffs on a Criterion whose
\* operator output shape differs from its mean's shape raises an error.
C5_MismatchRaises == (call # NoCall /\ ShapeMismatch) => ret.raised

\* C5 (amended): the call raises exactly when numpy cannot broadcast the two
\* operands: for array operands, when on some axis (aligned from the last) the
\* lengths differ and neither is 1; for a list-valued mean, when the operator
\* returns an empty list or the total sizes differ and neither is 1.  In every
\* other case of differing shapes the difference is computed by broadcasting,
\* and has a shape at least as large as both operands.
C5_RaisesOnlyIfNotBroadcastable ==
    call # NoCall =>
        /\ ~obj._stacked => (ret.raised <=> Incompatible(obj.opshape, obj.mean))
        /\ obj._stacked =>
               (ret.raised <=>
                   \/ obj.oplist = <<>>
                   \/ /\ TotalSize(obj.oplist) # TotalSize(obj.meanlist)
                      /\ TotalSize(obj.oplist) # 1
                      /\ TotalSize(obj.meanlist) # 1)
        /\ ~ret.raised =>
               /\ Prod(ret.shape) >= Prod(OperatorShape(obj).shape)
               /\ Prod(ret.shape) >= Prod(obj._mean)

\* C5 witness: gradient was called with an operator output of shape (3,) and the
\* default scalar mean, and returned without an error
C5_Witness ==
    /\ Called("gradient")
    /\ ~obj._stacked
    /\ obj.opshape = <<3>>
    /\ obj.mean = <<>>
    /\ ~ret.raised
    /\ ret.shape = <<3>>

(***************************************************************************)
(* Criterion and QuadCriterion on data.  The operator, adjoint and normal  *)
(* callables are linear maps, given by their matrices; the mean is an      *)
(* array of the size of the operator's output.                             *)
(***************************************************************************)
\* a value of a rational variant as a number (its square root part is One)
AsRat(s) == s[1]

\* Criterion.__init__ with an array-valued mean
Criterion(operator, adjoint, potential, hyper, mean) ==
    [cls |-> "Criterion", operator |-> operator, adjoint |-> adjoint,
     mean |-> mean, _stacked |-> FALSE, _mean |-> mean,
     hyper |-> hyper, potential |-> potential]

\* QuadCriterion.__init__: Criterion.__init__ with Square(), then normal, then
\* mean_t = self._adjoint(self._mean), computed here once
QuadCriterion(operator, adjoint, normal, hyper, mean) ==
    LET base == Criterion(operator, adjoint, Square, hyper, mean)
    IN  [cls |-> "QuadCriterion", operator |-> base.operator, adjoint |-> base.adjoint,
         mean |-> base.mean, _stacked |-> base._stacked, _mean |-> base._mean,
         hyper |-> base.hyper, potential |-> base.potential,
         normal |-> normal, mean_t |-> MatVec(base.adjoint, base._mean)]

\* Criterion._operator(point), mean not a list
CritOperator(crit, point) == MatVec(crit.operator, point)

\* Criterion._adjoint(point), mean not a list
CritAdjoint(crit, point) == MatVec(crit.adjoint, point)

\* Criterion.gradient(point): hyper * adjoint(potential.gradient(operator(point) - mean))
CriterionGradient(crit, point) ==
    LET obj_ == VSub(CritOperator(crit, point), crit._mean)
        pgrad == PotGradient(crit.potential, obj_)
    IN  VScale(crit.hyper, CritAdjoint(crit, Seal([i \in 1..Len(pgrad) |-> AsRat(pgrad[i])])))

\* Criterion.gr_coeffs(point)
CriterionGrCoeffs(crit, point) ==
    LET coeffs == PotGrCoeffs(crit.potential, VSub(CritOperator(crit, point), crit._mean))
    IN  Seal([i \in 1..Len(coeffs) |-> AsRat(coeffs[i])])

\* vecs.T @ (b.reshape((-1, 1)) * vecs) for the columns vecs and coefficients b
WeightedGram(vecs, b, ncols) ==
    Seal([p \in 1..ncols |-> Seal([q \in 1..ncols |->
        SumSeq(Seal([i \in 1..Len(vecs) |-> RMul(vecs[i][p], RMul(b[i], vecs[i][q]))]))])])

\* Criterion.norm_mat_major(vecs, point); a matrix of size 1 is returned as the
\* float that holds its single entry, kept here as the 1 x 1 matrix
CriterionNormMatMajor(crit, vecs, point, ncols) ==
    WeightedGram(vecs, CriterionGrCoeffs(crit, point), ncols)

\* mutant of QuadGradient: the precomputed mean_t is not subtracted
QuadGradientNoMean(crit, point) == VScale(crit.hyper, MatVec(crit.normal, point))

\* QuadCriterion.gradient(point): hyper * (normal(point) - mean_t)
QuadGradient(crit, point) ==
    VScale(crit.hyper, VSub(MatVec(crit.normal, point), crit.mean_t))

\* QuadCriterion.norm_mat_major(vecs, point): vecs.T @ vecs
QuadNormMatMajor(crit, vecs, point, ncols) ==
    Seal([p \in 1..ncols |-> Seal([q \in 1..ncols |->
        SumSeq(Seal([i \in 1..Len(vecs) |-> RMul(vecs[i][p], vecs[i][q])]))])])

\* crit.gradient(point), dispatched on the class
CritGradient(crit, point) ==
    IF crit.cls = "QuadCriterion" THEN QuadGradient(crit, point)
    ELSE CriterionGradient(crit, point)

\* crit.norm_mat_major(vecs, point), dispatched on the class
CritNormMatMajor(crit, vecs, point, ncols) ==
    IF crit.cls = "QuadCriterion" THEN QuadNormMatMajor(crit, vecs, point, ncols)
    ELSE CriterionNormMatMajor(crit, vecs, point, ncols)

\* the product A @ B of two matrices, B with ncols columns
MatMul(A, B, ncols) ==
    Seal([i \in 1..Len(A) |-> Seal([j \in 1..ncols |->
        SumSeq(Seal([k \in 1..Len(B) |-> RMul(A[i][k], B[k][j])]))])])

\* a matrix of integers as a matrix of numbers
IntMat(M) == Seal([i \in 1..Len(M) |-> Seal([j \in 1..Len(M[i]) |-> I(M[i][j])])])

(***************************************************************************)
(* Direct calls on a QuadCriterion: gradient and norm_mat_major.           *)
(***************************************************************************)
\* entries of the sampled points and means are the integers -MaxEntry..MaxEntry
MaxEntry == 1

Entries == {I(k) : k \in (0 - MaxEntry)..MaxEntry}

\* the sampled operators V with the number of their columns (the size of x)
SampleOperators ==
    { [V |-> IntMat(<<<<1>>>>), n |-> 1],
      [V |-> IntMat(<<<<2>>>>), n |-> 1],
      [V |-> IntMat(<<<<1, 0>>, <<0, 1>>>>), n |-> 2],
      [V |-> IntMat(<<<<1, 1>>, <<0, 1>>>>), n |-> 2],
      [V |-> IntMat(<<<<0 - 1, 1>>>>), n |-> 2] }

\* the identity of size n
Identity(n) == Seal([i \in 1..n |-> Seal([j \in 1..n |-> IF i = j THEN One ELSE Zero])])

\* the sampled QuadCriterion objects: the adjoint is the transpose; the normal
\* callable is adjoint o operator, or (a caller's mistake) the identity
SampleQuadCriteria ==
    UNION { { QuadCriterion(op.V,
                            Transpose(op.V, op.n),
                            IF exact THEN MatMul(Transpose(op.V, op.n), op.V, op.n)
                            ELSE Identity(op.n),
                            hyper, mean) :
                exact \in BOOLEAN,
                hyper \in {I(1), I(2)},
                mean \in [1..Len(op.V) -> Entries] } :
            op \in SampleOperators }

\* the sampled matrices W of one or two columns and m rows; the second column
\* is a 0/1 vector
SampleVecs(m) ==
    { [i \in 1..m |-> <<a[i]>>] : a \in [1..m -> Entries] }
    \cup { CBind(a, b) : a \in [1..m -> Entries], b \in [1..m -> {Zero, One}] }

CritInit ==
    /\ obj \in SampleQuadCriteria
    /\ call = NoCall
    /\ ret = <<>>
    /\ inp = None
    /\ mg = None
    /\ cg = None

\* obj.gradient(point) on a QuadCriterion
CallQuadGradient ==
    \E point \in [1..Len(obj.normal) -> Entries] :
        /\ call = NoCall
        /\ call' = [method |-> "gradient", point |-> point]
        /\ ret' = QuadGradient(obj, point)
        /\ UNCHANGED <<obj, inp, mg, cg>>

\* obj.norm_mat_major(vecs, point) on a QuadCriterion
CallQuadNormMatMajor ==
    \E vecs \in SampleVecs(Len(obj.operator)),
       point \in {VZero(Len(obj.normal)), [i \in 1..Len(obj.normal) |-> One]} :
        /\ call = NoCall
        /\ call' = [method |-> "norm_mat_major", point |-> point, vecs |-> vecs]
        /\ ret' = QuadNormMatMajor(obj, vecs, point, Len(vecs[1]))
        /\ UNCHANGED <<obj, inp, mg, cg>>

CritReturn ==
    /\ call # NoCall
    /\ call' = NoCall
    /\ ret' = <<>>
    /\ UNCHANGED <<obj, inp, mg, cg>>

CritNext == CallQuadGradient \/ CallQuadNormMatMajor \/ CritReturn

SpecCrit == CritInit /\ [][CritNext]_vars

\* the Criterion built from the same operator, adjoint, hyper and mean, with Square()
SquareTwin(crit) == Criterion(crit.operator, crit.adjoint, Square, crit.hyper, crit.mean)

\* normal = adjoint o operator
NormalIsExact(crit) ==
    crit.normal = MatMul(crit.adjoint, crit.operator, Len(crit.normal))

\* C8: QuadCriterion.gradient(x) = hyper * (normal(x) - adjoint(mean)), adjoint(mean)
\* being the attribute mean_t set at construction; when normal = adjoint o operator
\* it is the gradient of the Criterion built with Square(); and norm_mat_major(W, x)
\* = W^t W is that Criterion's W^t diag(gr_coeffs(x)) W.
C8_QuadIsSquareCriterion ==
    /\ obj.mean_t = MatVec(obj.adjoint, obj.mean)
    /\ Called("gradient") =>
        /\ ret = VScale(obj.hyper,
                        VSub(MatVec(obj.normal, call.point), MatVec(obj.adjoint, obj.mean)))
        /\ NormalIsExact(obj) => ret = CriterionGradient(SquareTwin(obj), call.point)
    /\ Called("norm_mat_major") =>
        /\ ret = MatMul(Transpose(call.vecs, Len(call.vecs[1])), call.vecs, Len(call.vecs[1]))
        /\ ret = CriterionNormMatMajor(SquareTwin(obj), call.vecs, call.point,
                                       Len(call.vecs[1]))

\* C8 witness: gradient was called on a QuadCriterion with V = [[1, 1], [0, 1]],
\* normal = V^t V, hyper 2 and a nonzero mean, at a nonzero point
C8_Witness ==
    /\ Called("gradient")
    /\ obj.operator = IntMat(<<<<1, 1>>, <<0, 1>>>>)
    /\ NormalIsExact(obj)
    /\ obj.hyper = I(2)
    /\ obj.mean = <<I(1), I(0 - 1)>>
    /\ call.point = <<I(1), I(1)>>
    /\ ret = <<I(2), I(6)>>

(***************************************************************************)
(* The solvers.  An array is a record of its shape, its elements in C      *)
(* order (data) and whether its memory is C-contiguous; the solvers work   *)
(* on the column point = init.reshape((-1, 1)), whose elements are data.   *)
(* vect() and np.reshape change the shape and keep the elements in order.  *)
(***************************************************************************)
\* init.reshape((-1, 1)) is a view of init when numpy can express the new shape
\* with strides over init's memory, and a copy otherwise: it is a view of a
\* C-contiguous array and of any array with at most one axis longer than 1
ReshapeIsView(arr) ==
    arr.contiguous \/ Cardinality({i \in 1..Len(arr.shape) : arr.shape[i] > 1}) <= 1

\* sum(...) of column vectors of size n (Python's sum starts from 0)
RECURSIVE SumVecs(_, _)
SumVecs(vs, n) == IF vs = <<>> THEN VZero(n) ELSE VAdd(Head(vs), SumVecs(Tail(vs), n))

\* sum(...) of ncols x ncols matrices
RECURSIVE SumMats(_, _)
SumMats(ms, ncols) ==
    IF ms = <<>> THEN Seal([p \in 1..ncols |-> Seal([q \in 1..ncols |-> Zero])])
    ELSE LET rest == SumMats(Tail(ms), ncols)
         IN  Seal([p \in 1..ncols |->
                      Seal([q \in 1..ncols |-> RAdd(Head(ms)[p][q], rest[p][q])])])

\* gradient(crit_list, point, shape): the sum of the criteria's gradients
Gradient(crit_list, point) ==
    SumVecs(Seal([k \in 1..Len(crit_list) |-> CritGradient(crit_list[k], point)]),
            Len(point))

\* mutant of StopTest: the norm is compared with <=
StopTestLe(normsq, size, tol) ==
    LET thr == RMul(I(size), tol)
    IN  RLe(Zero, thr) /\ RLe(normsq, RMul(thr, thr))

\* norm < point.size * tol, for the norm whose square is normsq
StopTest(normsq, size, tol) ==
    LET thr == RMul(I(size), tol)
    IN  RLt(Zero, thr) /\ RLt(normsq, RMul(thr, thr))

\* la.pinv of a 2 x 2 matrix: the inverse when the determinant is not 0, the
\* zero matrix for the zero matrix, and A^t / ||A||_F^2 for a matrix of rank 1
Pinv2(A) ==
    LET det == RSub(RMul(A[1][1], A[2][2]), RMul(A[1][2], A[2][1]))
        fro == RAdd(RAdd(RMul(A[1][1], A[1][1]), RMul(A[1][2], A[1][2])),
                    RAdd(RMul(A[2][1], A[2][1]), RMul(A[2][2], A[2][2])))
    IN  IF ~REq(det, Zero)
        THEN << <<RDiv(A[2][2], det), RDiv(RNeg(A[1][2]), det)>>,
                <<RDiv(RNeg(A[2][1]), det), RDiv(A[1][1], det)>> >>
        ELSE IF REq(fro, Zero) THEN << <<Zero, Zero>>, <<Zero, Zero>> >>
        ELSE << <<RDiv(A[1][1], fro), RDiv(A[2][1], fro)>>,
                <<RDiv(A[1][2], fro), RDiv(A[2][2], fro)>> >>

\* np.reshape(point, init.shape): the returned array
Reshape(point, shape) == [shape |-> shape, data |-> point]

\* the frame of a solver that has not been called
NotCalled == [pc |-> "start"]

\* point.size
Size == Len(inp.init.data)

\* the caller's init array after the solver wrote newpoint to point: the same
\* memory when point is a view of init
InitAfter(frame, newpoint) == IF ReshapeIsView(inp.init) THEN newpoint ELSE frame.init

(***************************************************************************)
(* mmmg                                                                    *)
(***************************************************************************)
\* lines 105-115: the locals before the loop
MmmgEnter ==
    /\ mg.pc = "start"
    /\ mg' = [pc |-> "loop",
              init |-> inp.init.data,
              point |-> inp.init.data,
              norm_grad |-> <<>>,
              move |-> VZero(Size),
              op_directions |->
                  Seal([k \in 1..Len(inp.crit_list) |->
                           LET col == MatVec(inp.crit_list[k].operator, VZero(Size))
                           IN  CBind(col, col)]),
              step |-> <<One, One>>,
              it |-> 0,
              moves |-> 0]
    /\ UNCHANGED <<inp, cg, obj, call, ret>>

\* lines 119-120: the gradient at the current point and the square of its norm
MmmgGrad ==
    LET grad == Gradient(inp.crit_list, mg.point)
    IN  [grad |-> grad, normsq |-> NormSq(grad)]

\* lines 119-124 and 145: an iteration whose stopping test holds
MmmgBreak ==
    /\ mg.pc = "loop"
    /\ mg.it < inp.max_iter
    /\ \E g \in {MmmgGrad} :
        /\ StopTest(g.normsq, Size, inp.tol)
        /\ mg' = [mg EXCEPT !.pc = "done",
                            !.it = @ + 1,
                            !.norm_grad = Append(@, g.normsq)]
    /\ UNCHANGED <<inp, cg, obj, call, ret>>

\* mutant of MmmgDirections: the cached second column is kept as it was, not
\* recombined with the previous step
MmmgDirectionsStale(grad) ==
    [directions |-> CBind(VNeg(grad), mg.move),
     op_directions |->
         Seal([k \in 1..Len(inp.crit_list) |->
                  CBind(MatVec(inp.crit_list[k].operator, grad),
                        Col(mg.op_directions[k], 2))])]

\* lines 127-133: directions and the updated op_directions, for the gradient grad
MmmgDirections(grad) ==
    [directions |-> CBind(VNeg(grad), mg.move),
     op_directions |->
         Seal([k \in 1..Len(inp.crit_list) |->
                  CBind(MatVec(inp.crit_list[k].operator, grad),
                        MatVec(mg.op_directions[k], mg.step))])]

\* lines 134-139: step = -pinv(sum of norm_mat_major) @ (directions.T @ grad)
MmmgStep(grad, d) ==
    LET major ==
            SumMats(Seal([k \in 1..Len(inp.crit_list) |->
                             CritNormMatMajor(inp.crit_list[k], d.op_directions[k],
                                              mg.point, 2)]), 2)
    IN  VNeg(MatVec(Pinv2(major), MatVec(Transpose(d.directions, 2), grad)))

\* lines 119-143: an iteration that moves the point
MmmgIterate ==
    /\ mg.pc = "loop"
    /\ mg.it < inp.max_iter
    /\ \E g \in {MmmgGrad} :
        /\ ~StopTest(g.normsq, Size, inp.tol)
        /\ \E d \in {MmmgDirections(g.grad)} :
           \E step \in {MmmgStep(g.grad, d)} :
           \E move \in {MatVec(d.directions, step)} :
           \E point \in {VAdd(mg.point, move)} :
               mg' = [mg EXCEPT !.norm_grad = Append(@, g.normsq),
                                !.op_directions = d.op_directions,
                                !.step = step,
                                !.move = move,
                                !.point = point,
                                !.init = InitAfter(mg, point),
                                !.it = @ + 1,
                                !.moves = @ + 1]
    /\ UNCHANGED <<inp, cg, obj, call, ret>>

\* lines 117 and 145: range(max_iter) is exhausted
MmmgExhaust ==
    /\ mg.pc = "loop"
    /\ mg.it = inp.max_iter
    /\ mg' = [mg EXCEPT !.pc = "done"]
    /\ UNCHANGED <<inp, cg, obj, call, ret>>

\* what mmmg returned (line 145)
MmmgResult == <<Reshape(mg.point, inp.init.shape), mg.norm_grad>>

(***************************************************************************)
(* mmcg                                                                    *)
(***************************************************************************)
\* precond(x): the caller's matrix, or lambda x: x when precond is None
Precond(x) == IF inp.precond.given THEN MatVec(inp.precond.M, x) ELSE x

\* mutant of InitialTrace: mmcg starts with an empty trace, as mmmg does
InitialTraceEmpty(residual) == <<>>

\* line 226: norm_res = [la.norm(residual)], the norm at init
InitialTrace(residual) == <<NormSq(residual)>>

\* lines 217-226: the locals before the loop
MmcgEnter ==
    /\ cg.pc = "start"
    /\ LET residual == VNeg(Gradient(inp.crit_list, inp.init.data))
           sec == Precond(residual)
       IN  cg' = [pc |-> "loop",
                  init |-> inp.init.data,
                  point |-> inp.init.data,
                  residual |-> residual,
                  sec |-> sec,
                  direction |-> sec,
                  delta |-> Dot(residual, sec),
                  norm_res |-> InitialTrace(residual),
                  it |-> 0,
                  moves |-> 0]
    /\ UNCHANGED <<inp, mg, obj, call, ret>>

\* lines 230-238: the step along the direction
MmcgStep ==
    LET op_direction ==
            Seal([k \in 1..Len(inp.crit_list) |->
                     LET w == MatVec(inp.crit_list[k].operator, cg.direction)
                     IN  Seal([i \in 1..Len(w) |-> <<w[i]>>])])
        major ==
            SumMats(Seal([k \in 1..Len(inp.crit_list) |->
                             CritNormMatMajor(inp.crit_list[k], op_direction[k],
                                              cg.point, 1)]), 1)
    IN  RDiv(Dot(cg.direction, cg.residual), major[1][1])

\* lines 240-246: the point after the update, the residual there and the square
\* of its norm, for the step of line 235
MmcgUpdate(step) ==
    LET point == VAdd(cg.point, VScale(step, cg.direction))
        residual == VNeg(Gradient(inp.crit_list, point))
    IN  [point |-> point, residual |-> residual, normsq |-> NormSq(residual)]

\* lines 230-248 and 260: an iteration whose stopping test holds
MmcgBreak ==
    /\ cg.pc = "loop"
    /\ cg.it < inp.max_iter
    /\ \E step \in {MmcgStep} :
       \E u \in {MmcgUpdate(step)} :
        /\ StopTest(u.normsq, Size, inp.tol)
        /\ cg' = [cg EXCEPT !.pc = "done",
                            !.point = u.point,
                            !.init = InitAfter(cg, u.point),
                            !.residual = u.residual,
                            !.norm_res = Append(@, u.normsq),
                            !.it = @ + 1,
                            !.moves = @ + 1]
    /\ UNCHANGED <<inp, mg, obj, call, ret>>

\* mutant of MmcgBeta: delta_mid is taken after sec is overwritten
MmcgBetaLate(residual, sec) ==
    RDiv(RSub(Dot(residual, sec), Dot(residual, sec)), cg.delta)

\* the coefficient (delta - delta_mid) / delta_old of lines 251-255, for the new
\* residual and sec = precond(residual)
MmcgBeta(residual, sec) ==
    LET delta_old == cg.delta
        delta_mid == Dot(residual, cg.sec)
        delta == Dot(residual, sec)
    IN  RDiv(RSub(delta, delta_mid), delta_old)

\* lines 255-258: the next direction
MmcgDirection(beta, sec) ==
    IF RLe(Zero, beta) THEN VAdd(sec, VScale(beta, cg.direction)) ELSE sec

\* lines 230-258: an iteration that goes on to the next direction
MmcgIterate ==
    /\ cg.pc = "loop"
    /\ cg.it < inp.max_iter
    /\ \E step \in {MmcgStep} :
       \E u \in {MmcgUpdate(step)} :
        /\ ~StopTest(u.normsq, Size, inp.tol)
        /\ \E sec \in {Precond(u.residual)} :
           \E beta \in {MmcgBeta(u.residual, sec)} :
               cg' = [cg EXCEPT !.point = u.point,
                                !.init = InitAfter(cg, u.point),
                                !.residual = u.residual,
                                !.norm_res = Append(@, u.normsq),
                                !.sec = sec,
                                !.delta = Dot(u.residual, sec),
                                !.direction = MmcgDirection(beta, sec),
                                !.it = @ + 1,
                                !.moves = @ + 1]
    /\ UNCHANGED <<inp, mg, obj, call, ret>>

\* lines 228 and 260: range(max_iter) is exhausted
MmcgExhaust ==
    /\ cg.pc = "loop"
    /\ cg.it = inp.max_iter
    /\ cg' = [cg EXCEPT !.pc = "done"]
    /\ UNCHANGED <<inp, mg, obj, call, ret>>

\* what mmcg returned (line 260)
MmcgResult == <<Reshape(cg.point, inp.init.shape), cg.norm_res>>

(***************************************************************************)
(* The calls checked: both solvers are called on the same arguments, each  *)
(* on its own copy of the init array, and run independently.               *)
(***************************************************************************)
Arr(shape, data, contiguous) == [shape |-> shape, data |-> data, contiguous |-> contiguous]

\* QuadCriterion(V, V^t, V^t V, hyper, mean) for a matrix V of n columns
QuadOf(V, n, hyper, mean) ==
    QuadCriterion(V, Transpose(V, n), MatMul(Transpose(V, n), V, n), hyper, mean)

\* Criterion(V, V^t, potential, hyper, mean) for a matrix V of n columns
CritOf(V, n, potential, hyper, mean) ==
    Criterion(V, Transpose(V, n), potential, hyper, mean)

NoPrecond == [given |-> FALSE]

\* 1-D denoising with the identity operator and one QuadCriterion(hyper, mean)
Problems1 ==
    { [crit_list |-> <<QuadOf(Identity(1), 1, hyper, <<mean>>)>>,
       init |-> Arr(<<1>>, <<x0>>, TRUE),
       precond |-> NoPrecond] :
        hyper \in {I(1), I(2), Q(1, 2)},
        mean \in {I(0), I(1), I(0 - 2)},
        x0 \in {I(0), I(1)} }

\* two unknowns: a data term with V = [[1, 1], [0, 1]] and a quadratic penalty,
\* with and without a diagonal preconditioner
Problems2 ==
    { [crit_list |-> <<QuadOf(IntMat(<<<<1, 1>>, <<0, 1>>>>), 2, I(1), <<I(1), I(2)>>),
                       QuadOf(Identity(2), 2, I(1), <<I(0), I(0)>>)>>,
       init |-> Arr(shape, <<I(0), I(0)>>, TRUE),
       precond |-> precond] :
        precond \in {NoPrecond,
                     [given |-> TRUE, M |-> <<<<Q(1, 2), Zero>>, <<Zero, One>>>>]},
        shape \in {<<2>>, <<1, 2>>} }

\* two unknowns: a Square data term and a Huber or VminProj penalty
Problems3 ==
    { [crit_list |-> <<CritOf(Identity(2), 2, Square, I(1), <<I(1), I(0 - 1)>>), pen>>,
       init |-> Arr(<<2>>, <<I(0), I(0)>>, TRUE),
       precond |-> NoPrecond] :
        pen \in {CritOf(IntMat(<<<<0 - 1, 1>>>>), 2, Huber(I(1)), I(1), <<I(0)>>),
                 CritOf(Identity(2), 2, VminProj(I(0)), I(2), <<I(0), I(0)>>)} }

\* a 2 x 2 unknown with the identity operator, the init array C-contiguous or
\* not (a transposed array)
Problems4 ==
    { [crit_list |-> <<QuadOf(Identity(4), 4, I(1), <<I(1), I(0), I(0), I(2)>>)>>,
       init |-> Arr(<<2, 2>>, <<I(0), I(0), I(0), I(0)>>, contiguous),
       precond |-> NoPrecond] :
        contiguous \in BOOLEAN }

\* one unknown below the threshold of a single VminProj(1) criterion
Problems5 ==
    { [crit_list |-> <<CritOf(Identity(1), 1, VminProj(I(1)), I(1), <<I(0)>>)>>,
       init |-> Arr(<<1>>, <<Q(1, 2)>>, TRUE),
       precond |-> NoPrecond] }

Problems == Problems1 \cup Problems2 \cup Problems3 \cup Problems4 \cup Problems5

\* the tolerances of the calls
Tols == {Q(1, 10), I(1)}

Init ==
    /\ \E pb \in Problems, tol \in Tols, max_iter \in 0..MaxIter :
           inp = [crit_list |-> pb.crit_list, init |-> pb.init, precond |-> pb.precond,
                  tol |-> tol, max_iter |-> max_iter]
    /\ mg = NotCalled
    /\ cg = NotCalled
    /\ obj = None
    /\ call = NoCall
    /\ ret = <<>>

Next ==
    \/ MmmgEnter
    \/ MmmgBreak
    \/ MmmgIterate
    \/ MmmgExhaust
    \/ MmcgEnter
    \/ MmcgBreak
    \/ MmcgIterate
    \/ MmcgExhaust

Spec == Init /\ [][Next]_vars

(***************************************************************************)
(* Properties of the solvers                                               *)
(***************************************************************************)
\* the last entry of a trace
Last(trace) == trace[Len(trace)]

\* a norm, given by its square, is < N * tol
BelowTol(normsq) ==
    LET thr == RMul(I(Size), inp.tol)
    IN  RLt(Zero, thr) /\ RLt(normsq, RMul(thr, thr))

\* a norm, given by its square, is >= N * tol
AtLeastTol(normsq) ==
    LET thr == RMul(I(Size), inp.tol)
    IN  RLe(RMul(thr, thr), normsq)

\* the criterion list holds QuadCriterion terms only
AllQuad == \A k \in 1..Len(inp.crit_list) : inp.crit_list[k].cls = "QuadCriterion"

\* the call has the largest budget of iterations
FullBudget == inp.max_iter = MaxIter

\* C1: on QuadCriterion terms only, mmmg and mmcg called with the same init,
\* tol and max_iter both return with a last trace value < N * tol, so that both
\* points are within the tolerance of the minimizer (stated for the calls with
\* the largest budget).  The code violates it: norm_mat_major leaves hyper out,
\* so the step is hyper times too long, and a zero residual at init makes the
\* step of mmcg 0 / 0.
C1_QuadSolversConverge ==
    (mg.pc = "done" /\ cg.pc = "done" /\ AllQuad /\ FullBudget)
        => /\ BelowTol(Last(mg.norm_grad))
           /\ BelowTol(Last(cg.norm_res))

\* C2: when mmmg has returned, every trace entry but the last is >= N * tol,
\* and either the last entry is < N * tol, the point was moved len(trace) - 1
\* times and the gradient at the returned point has the last entry as norm, or
\* the trace has max_iter entries.
C2_MmmgStopsOnTest ==
    mg.pc = "done"
        => /\ \A i \in 1..(Len(mg.norm_grad) - 1) : AtLeastTol(mg.norm_grad[i])
           /\ \/ /\ mg.norm_grad # <<>>
                 /\ BelowTol(Last(mg.norm_grad))
                 /\ mg.moves = Len(mg.norm_grad) - 1
                 /\ NormSq(Gradient(inp.crit_list, mg.point)) = Last(mg.norm_grad)
              \/ Len(mg.norm_grad) = inp.max_iter

\* C2 witness: mmmg moved the point at least once and then stopped on the test
C2_Witness ==
    /\ mg.pc = "done"
    /\ Len(mg.norm_grad) >= 2
    /\ Len(mg.norm_grad) < inp.max_iter
    /\ BelowTol(Last(mg.norm_grad))
    /\ mg.moves = Len(mg.norm_grad) - 1

\* C3: mmcg never updates the point from an iterate whose residual norm is
\* < N * tol: when the norm at init is < N * tol, the point stays at init.  The
\* code violates it: there is no test before the first update.
C3_MmcgNoUpdateBelowTol ==
    (cg.pc # "start" /\ BelowTol(cg.norm_res[1])) => cg.point = inp.init.data

\* C4 as stated: a returned trace has as many entries as iterations performed
C4_LengthIsIterations ==
    /\ mg.pc = "done" => (Len(mg.norm_grad) = mg.it /\ mg.it <= inp.max_iter)
    /\ cg.pc = "done" => (Len(cg.norm_res) = cg.it /\ cg.it <= inp.max_iter)

\* C4: both solvers perform at most max_iter iterations and then return; the
\* trace only grows by appending; mmmg's trace has one entry per iteration
\* performed, mmcg's trace has the norm at init and one entry per iteration
\* performed, so at most max_iter + 1 entries.
C4_TraceLength ==
    /\ [](/\ mg.pc # "start" => (Len(mg.norm_grad) = mg.it /\ mg.it <= inp.max_iter)
          /\ cg.pc # "start" => (/\ Len(cg.norm_res) = cg.it + 1
                                 /\ cg.it <= inp.max_iter
                                 /\ Len(cg.norm_res) <= inp.max_iter + 1))
    /\ [][/\ mg.pc # "start" =>
                SubSeq(mg'.norm_grad, 1, Len(mg.norm_grad)) = mg.norm_grad
          /\ cg.pc # "start" =>
                SubSeq(cg'.norm_res, 1, Len(cg.norm_res)) = cg.norm_res]_vars

\* C4 witness: mmcg exhausted max_iter >= 2 iterations without converging
C4_Witness ==
    /\ cg.pc = "done"
    /\ inp.max_iter >= 2
    /\ cg.it = inp.max_iter
    /\ Len(cg.norm_res) = inp.max_iter + 1
    /\ IsFin(Last(cg.norm_res))
    /\ ~BelowTol(Last(cg.norm_res))

\* C9: on return the caller's init array holds the returned point.  The code
\* violates it when init.reshape((-1, 1)) is a copy.
C9_InitUpdatedInPlace ==
    /\ mg.pc = "done" => mg.init = mg.point
    /\ cg.pc = "done" => cg.init = cg.point

\* the operator V applied to both columns of the direction matrix D
ApplyCols(V, D) == CBind(MatVec(V, Col(D, 1)), MatVec(V, Col(D, 2)))

\* the opposite of a matrix of two columns
NegCols(W) == CBind(VNeg(Col(W, 1)), VNeg(Col(W, 2)))

\* the sum over the criteria of norm_mat_major(vecs[k], point), a 2 x 2 matrix
SubspaceMajor(vecs, point) ==
    SumMats(Seal([k \in 1..Len(inp.crit_list) |->
                     CritNormMatMajor(inp.crit_list[k], vecs[k], point, 2)]), 2)

\* C11: in every mmmg iteration that moves the point, with g the gradient at
\* the current point and D = [-g, previous move], the updated cache of every
\* criterion k is -V_k D, the matrix of the step is the sum of
\* norm_mat_major(V_k D, x), and the step is -pinv of that matrix times D^t g.
C11_CacheIsOperatorOnDirections ==
    [][(mg.pc = "loop" /\ mg'.pc = "loop" /\ mg'.it = mg.it + 1) =>
        LET g == Gradient(inp.crit_list, mg.point)
            D == CBind(VNeg(g), mg.move)
            VD == Seal([k \in 1..Len(inp.crit_list) |->
                           ApplyCols(inp.crit_list[k].operator, D)])
            major == SubspaceMajor(VD, mg.point)
        IN  /\ \A k \in 1..Len(inp.crit_list) : mg'.op_directions[k] = NegCols(VD[k])
            /\ SubspaceMajor(mg'.op_directions, mg.point) = major
            /\ mg'.step = VNeg(MatVec(Pinv2(major), MatVec(Transpose(D, 2), g)))]_vars

\* C11 witness: on two unknowns, mmmg moved twice and some cache holds a
\* nonzero second column, recombined from the previous step
C11_Witness ==
    /\ mg.pc # "start"
    /\ Size = 2
    /\ mg.moves >= 2
    /\ \E k \in 1..Len(inp.crit_list) :
           \E i \in 1..Len(mg.op_directions[k]) : mg.op_directions[k][i][2] # Zero

\* C12: in every mmcg iteration that does not stop, with r the new residual,
\* sec = precond(r) and beta = (r.sec - r.sec_old) / delta_old, the next
\* direction is sec + beta * direction when beta >= 0 and sec when beta < 0;
\* sec and delta = r.sec are kept for the next iteration.
C12_ConjugateDirection ==
    [][(cg.pc = "loop" /\ cg'.pc = "loop" /\ cg'.it = cg.it + 1) =>
        LET r == cg'.residual
            sec == Precond(r)
            beta == RDiv(RSub(Dot(r, sec), Dot(r, cg.sec)), cg.delta)
        IN  /\ cg'.sec = sec
            /\ cg'.delta = Dot(r, sec)
            /\ RLe(Zero, beta) => cg'.direction = VAdd(sec, VScale(beta, cg.direction))
            /\ RLt(beta, Zero) => cg'.direction = sec]_vars

\* C12 witness: after an iteration of mmcg with a preconditioner, the next
\* direction is finite and is not sec: a positive beta was applied
C12_Witness ==
    /\ cg.pc = "loop"
    /\ cg.it >= 1
    /\ inp.precond.given
    /\ cg.direction # cg.sec
    /\ \A i \in 1..Len(cg.direction) : IsFin(cg.direction[i])

\* C13: on QuadCriterion terms only, the step of mmcg minimizes the objective
\* along the direction: the residual after the update is orthogonal to the
\* direction of the update (stated where mmcg returns from its stopping test,
\* the direction being the one of the last update).  The code violates it for
\* hyper # 1: norm_mat_major leaves hyper out of the curvature.
C13_StepIsExact ==
    (/\ cg.pc = "done"
     /\ cg.it >= 1
     /\ AllQuad
     /\ BelowTol(Last(cg.norm_res))
     /\ cg.direction # VZero(Size))
        => Dot(cg.direction, cg.residual) = Zero

\* a = sum over the criteria of (V_k g)^t diag(b_k) (V_k g), b_k the GR
\* coefficients at point
GradientCurvature(g, point) ==
    SumMats(Seal([k \in 1..Len(inp.crit_list) |->
                     LET w == MatVec(inp.crit_list[k].operator, g)
                     IN  CritNormMatMajor(inp.crit_list[k],
                                          Seal([i \in 1..Len(w) |-> <<w[i]>>]),
                                          point, 1)]), 1)[1][1]

\* C14: after a first mmmg iteration that moves the point, with g the gradient
\* at init and a the curvature along g: the matrix of the step has a zero
\* second row and column, the second component of the step is 0, and the move
\* is the non-negative multiple (g.g / a) of -g, or zero when a = 0.  The code
\* violates it: a negative GR coefficient makes a, and the multiple, negative.
C14_FirstMoveAlongNegGradient ==
    (mg.pc # "start" /\ mg.it = 1 /\ mg.moves = 1) =>
        LET g == Gradient(inp.crit_list, inp.init.data)
            a == GradientCurvature(g, inp.init.data)
            A == SubspaceMajor(Seal([k \in 1..Len(inp.crit_list) |->
                                        CBind(Col(mg.op_directions[k], 1),
                                              VZero(Len(mg.op_directions[k])))]),
                               inp.init.data)
        IN  /\ A = << <<a, Zero>>, <<Zero, Zero>> >>
            /\ mg.step[2] = Zero
            /\ mg.point = VAdd(inp.init.data, mg.move)
            /\ IF a = Zero THEN mg.move = VZero(Size)
               ELSE /\ RLe(Zero, RDiv(NormSq(g), a))
                    /\ mg.move = VScale(RDiv(NormSq(g), a), VNeg(g))

\* C15: every coefficient that gr_coeffs returns is >= 0, for every potential
\* and every parameter.  The code violates it: VminProj(vmin) with vmin > 0
\* returns (u - vmin) / u < 0 for 0 < u < vmin, and VmaxProj(vmax) with
\* vmax < 0 does for vmax < u < 0.
C15_GrCoeffsNonNegative ==
    Called("gr_coeffs") => \A i \in 1..Len(ret) : SLe(Rat(Zero), ret[i])

(***************************************************************************)
(* Criterion with a list-valued mean: the arrays of the list are stacked   *)
(* into one column vector and cut out of it again.  An array is a record   *)
(* of its shape and of its elements in C order.                           *)
(***************************************************************************)
\* arr.reshape((-1, 1)) of every array, stacked by np.vstack: the elements of
\* the arrays, one array after the other
RECURSIVE List2Vec(_)
List2Vec(arr_list) ==
    IF arr_list = <<>> THEN <<>> ELSE Head(arr_list).data \o List2Vec(Tail(arr_list))

\* Criterion.__init__ on a list-valued mean (lines 316-320)
CriterionOfMeanList(mean) ==
    [_stacked |-> TRUE, mean |-> mean,
     _shape |-> [i \in 1..Len(mean) |-> mean[i].shape],
     _idx |-> CumSum([i \in 1..Len(mean) |-> Len(mean[i].data)], 0),
     _mean |-> List2Vec(mean)]

\* mutant of Vec2List: every array is cut from the start of the vector
Vec2ListNoOffset(crit, arr) ==
    [i \in 1..Len(crit._shape) |->
        [shape |-> crit._shape[i],
         data |-> SubSeq(arr, 1, crit._idx[i + 1] - crit._idx[i])]]

\* Criterion._vec2list(arr): np.reshape(arr[_idx[i] : _idx[i + 1]], shape) for
\* every shape of _shape; _idx[i] of the code is _idx[i + 1] here
Vec2List(crit, arr) ==
    [i \in 1..Len(crit._shape) |->
        [shape |-> crit._shape[i],
         data |-> SubSeq(arr, crit._idx[i] + 1, crit._idx[i + 1])]]

\* the values of the sampled array elements
Bits == {Zero, One}

\* the arrays of a shape, with sampled elements
ArraysOf(shape) == {[shape |-> shape, data |-> d] : d \in [1..Prod(shape) -> Bits]}

\* the lists of arrays whose shapes are those of shapes
RECURSIVE ListsOf(_)
ListsOf(shapes) ==
    IF shapes = <<>> THEN {<<>>}
    ELSE {<<a>> \o rest : a \in ArraysOf(Head(shapes)), rest \in ListsOf(Tail(shapes))}

\* the sampled list-valued means: one or two arrays, each filled with one value
StackMeans ==
    {[i \in 1..Len(shapes) |->
         [shape |-> shapes[i], data |-> [j \in 1..Prod(shapes[i]) |-> c]]] :
        shapes \in UNION {[1..n -> ElementShapes] : n \in 1..2}, c \in Bits}

StackInit ==
    /\ obj \in {CriterionOfMeanList(mean) : mean \in StackMeans}
    /\ call = NoCall
    /\ ret = <<>>
    /\ inp = None
    /\ mg = None
    /\ cg = None

\* obj._list2vec(arr_list), on a list of arrays with the shapes of the mean
CallList2Vec ==
    \E arr_list \in ListsOf(obj._shape) :
        /\ call = NoCall
        /\ call' = [method |-> "_list2vec", point |-> arr_list]
        /\ ret' = List2Vec(arr_list)
        /\ UNCHANGED <<obj, inp, mg, cg>>

\* obj._vec2list(arr), on a column vector of the total size
CallVec2List ==
    \E arr \in [1..Len(obj._mean) -> Bits] :
        /\ call = NoCall
        /\ call' = [method |-> "_vec2list", point |-> arr]
        /\ ret' = Vec2List(obj, arr)
        /\ UNCHANGED <<obj, inp, mg, cg>>

StackReturn ==
    /\ call # NoCall
    /\ call' = NoCall
    /\ ret' = <<>>
    /\ UNCHANGED <<obj, inp, mg, cg>>

StackNext == CallList2Vec \/ CallVec2List \/ StackReturn

SpecStack == StackInit /\ [][StackNext]_vars

\* C16: _vec2list(_list2vec(L)) = L for every list L with the shapes of the
\* mean, _list2vec(_vec2list(v)) = v for every vector v of the total size, and
\* the offset table _idx starts at 0, is non-decreasing, ends at the total
\* size, and is never changed by a call.
C16_StackRoundTrip ==
    /\ [](/\ Len(obj._idx) = Len(obj._shape) + 1
          /\ obj._idx[1] = 0
          /\ obj._idx[Len(obj._idx)] = Len(obj._mean)
          /\ \A i \in 1..Len(obj._shape) : obj._idx[i] <= obj._idx[i + 1]
          /\ Called("_list2vec") => Vec2List(obj, ret) = call.point
          /\ Called("_vec2list") =>
                 /\ List2Vec(ret) = call.point
                 /\ \A i \in 1..Len(ret) : /\ ret[i].shape = obj.mean[i].shape
                                            /\ Len(ret[i].data) = Prod(ret[i].shape))
    /\ [][obj'._idx = obj._idx /\ obj'._shape = obj._shape]_vars

\* C16 witness: two arrays of shapes (2,) and (1, 3) with different elements
\* were stacked into a vector of 5 elements
C16_Witness ==
    /\ Called("_list2vec")
    /\ obj._idx = <<0, 2, 5>>
    /\ call.point = <<[shape |-> <<2>>, data |-> <<One, Zero>>],
                      [shape |-> <<1, 3>>, data |-> <<Zero, One, One>>]>>
    /\ ret = <<One, Zero, Zero, One, One>>

====
